---- MODULE Spec2Model ----
(***************************************************************************)
(* Model of the dashboard package of the dashboard manager:                *)
(*   - ValidateDashboard, the structural validator of a decoded Grafana    *)
(*     dashboard, as the sequence of statements it executes over one call  *)
(*     frame (its locals: errors, panelIDs, varNames, the loop index);     *)
(*   - ProcessTemplateVariables, the placeholder substitution, as one      *)
(*     step per entry of the replacement map, in any order.                *)
(* Go strings are TLA+ strings in the validator (built with \o as          *)
(* fmt.Sprintf builds them) and sequences of one-character strings in the  *)
(* substitution, where the code searches inside them.                      *)
(***************************************************************************)
EXTENDS Integers, Sequences, FiniteSets, TLC

VARIABLES
    dashboard,      \* the *Dashboard argument of ValidateDashboard
    call,           \* the frame of the running ValidateDashboard call
    returned,       \* what the earlier calls on this dashboard returned
    content,        \* the content argument of ProcessTemplateVariables
    replacements,   \* its replacements argument, a map name -> value
    result,         \* its local result
    pending,        \* the map keys the range loop has not yet visited
    subpc,          \* where the ProcessTemplateVariables call stands
    inputs,         \* the dashboards of the invocations that run side by side
    frames          \* the frame of each of these invocations

vars ==
    <<dashboard, call, returned, content, replacements, result, pending, subpc,
      inputs, frames>>

valVars == <<dashboard, call, returned>>
subVars == <<content, replacements, result, pending, subpc>>
conVars == <<inputs, frames>>

---------------------------------------------------------------------------
(* Bounds of the checked inputs.                                           *)

MaxPanels == 1
MaxVars == 1
MaxListPanels == 3
MaxListVars == 3
MaxTargets == 2
MaxCalls == 2
MaxLen == 4

---------------------------------------------------------------------------
(* Helpers on sequences.                                                   *)

SeqsUpTo(S, n) == UNION {[1..k -> S] : k \in 0..n}

RECURSIVE Join(_, _)
\* strings.Join(elems, sep)
Join(elems, sep) ==
    IF Len(elems) = 0 THEN ""
    ELSE IF Len(elems) = 1 THEN elems[1]
    ELSE elems[1] \o sep \o Join(Tail(elems), sep)

---------------------------------------------------------------------------
(* ValidationError and its rendering.                                      *)

ValidationError(field, message) == [Field |-> field, Message |-> message]

\* func (e ValidationError) Error() string
Error(e) == e.Field \o ": " \o e.Message

\* fmt.Sprintf("panels[%d].<name>", i), i the Go (0-based) index
PanelField(i, name) == "panels[" \o ToString(i) \o "]." \o name

\* fmt.Sprintf("panels[%d].targets[%d].refId", i, j)
TargetField(i, j) ==
    "panels[" \o ToString(i) \o "].targets[" \o ToString(j) \o "].refId"

\* fmt.Sprintf("templating.list[%d].<name>", i)
VariableField(i, name) == "templating.list[" \o ToString(i) \o "]." \o name

---------------------------------------------------------------------------
(* isQueryPanel: the closed, case-sensitive list of query panel types.     *)

queryPanels ==
    {"timeseries", "stat", "gauge", "bargauge", "table", "heatmap",
     "piechart", "graph", "singlestat"}

\* (variant) the type is compared without regard to case
isQueryPanelAnyCase(panelType) ==
    panelType \in queryPanels \cup {"Table", "Timeseries"}

isQueryPanel(panelType) == panelType \in queryPanels

---------------------------------------------------------------------------
(* The statements of ValidateDashboard, each a function of the dashboard d *)
(* and the frame f.  A frame keeps whatever an earlier call left in it: a  *)
(* local holds a fresh value only because the code initialises it.         *)

\* (variant) errors is not re-initialised: it keeps the entries of the last call
errorsKept(f) == f.errors

\* var errors []ValidationError
errorsDecl(f) == <<>>

\* (variant) the set of seen ids outlives the call
panelIDsKept(f) == f.panelIDs

\* panelIDs := make(map[int]bool)
panelIDsMake(f) == {}

\* (variant) the set of seen names outlives the call
varNamesKept(f) == f.varNames

\* varNames := make(map[string]bool)
varNamesMake(f) == {}

\* the title check, after the declaration of errors
TitleStep(d, f) ==
    LET errs0 == errorsDecl(f)
        errs1 == IF d.Title = ""
                 THEN Append(errs0, ValidationError("title", "title is required"))
                 ELSE errs0
    IN [f EXCEPT !.errors = errs1, !.pc = "schemaVersion"]

\* (variant) the schema version is only looked at when nothing failed so far
SchemaVersionStepFirstOnly(d, f) ==
    LET errs1 == IF d.SchemaVersion = 0 /\ f.errors = <<>>
                 THEN Append(f.errors,
                        ValidationError("schemaVersion", "schemaVersion is required"))
                 ELSE f.errors
    IN [f EXCEPT !.errors = errs1, !.pc = "panelCount"]

SchemaVersionStep(d, f) ==
    LET errs1 == IF d.SchemaVersion = 0
                 THEN Append(f.errors,
                        ValidationError("schemaVersion", "schemaVersion is required"))
                 ELSE f.errors
    IN [f EXCEPT !.errors = errs1, !.pc = "panelCount"]

\* the panel count check, then the set of seen ids and the loop's start
PanelCountStep(d, f) ==
    LET errs1 == IF Len(d.Panels) = 0
                 THEN Append(f.errors,
                        ValidationError("panels", "at least one panel is required"))
                 ELSE f.errors
    IN [f EXCEPT !.errors = errs1, !.panelIDs = panelIDsMake(f),
                 !.i = 0, !.pc = "panels"]

\* (variant) the id is marked as seen before it is looked up
DuplicatePanelIDAfterMark(panelIDs, panel) == panel.ID \in panelIDs \cup {panel.ID}

\* if panelIDs[panel.ID]
DuplicatePanelID(panelIDs, panel) == panel.ID \in panelIDs

\* (variant) the grid size fails only when both width and height do
BadGridPosBoth(panel) == panel.GridPos.W <= 0 /\ panel.GridPos.H <= 0

\* (variant) the comparison of the height is the wrong way round
BadGridPosFlipped(panel) == panel.GridPos.W <= 0 \/ panel.GridPos.H >= 0

\* if panel.GridPos.W <= 0 || panel.GridPos.H <= 0
BadGridPos(panel) == panel.GridPos.W <= 0 \/ panel.GridPos.H <= 0

\* if isQueryPanel(panel.Type) && len(panel.Targets) == 0
MissingTargets(panel) == isQueryPanel(panel.Type) /\ Len(panel.Targets) = 0

RECURSIVE TargetErrorsLastFirst(_, _, _)
\* (variant) the errors of the targets come out last target first
TargetErrorsLastFirst(i, targets, j) ==
    IF j >= Len(targets) THEN <<>>
    ELSE TargetErrorsLastFirst(i, targets, j + 1)
         \o (IF targets[j + 1].RefID = ""
             THEN <<ValidationError(TargetField(i, j), "target refId is required")>>
             ELSE <<>>)

RECURSIVE TargetErrorsWithExpr(_, _, _)
\* (variant) a target without expression is an error too
TargetErrorsWithExpr(i, targets, j) ==
    IF j >= Len(targets) THEN <<>>
    ELSE (IF targets[j + 1].RefID = ""
          THEN <<ValidationError(TargetField(i, j), "target refId is required")>>
          ELSE <<>>)
         \o (IF targets[j + 1].Expr = ""
             THEN <<ValidationError("panels[" \o ToString(i) \o "].targets["
                                    \o ToString(j) \o "].expr",
                                    "target expr is required")>>
             ELSE <<>>)
         \o TargetErrorsWithExpr(i, targets, j + 1)

RECURSIVE TargetErrors(_, _, _)
\* for j, target := range panel.Targets: the errors of targets j.. in order
TargetErrors(i, targets, j) ==
    IF j >= Len(targets) THEN <<>>
    ELSE (IF targets[j + 1].RefID = ""
          THEN <<ValidationError(TargetField(i, j), "target refId is required")>>
          ELSE <<>>)
         \o TargetErrors(i, targets, j + 1)

\* one iteration of the loop over dashboard.Panels, at Go index f.i
PanelStep(d, f) ==
    LET i == f.i
        panel == d.Panels[i + 1]
        e1 == IF DuplicatePanelID(f.panelIDs, panel)
              THEN <<ValidationError(PanelField(i, "id"),
                        "duplicate panel ID: " \o ToString(panel.ID))>>
              ELSE <<>>
        e2 == IF panel.Type = ""
              THEN <<ValidationError(PanelField(i, "type"), "panel type is required")>>
              ELSE <<>>
        e3 == IF BadGridPos(panel)
              THEN <<ValidationError(PanelField(i, "gridPos"),
                        "panel width and height must be positive")>>
              ELSE <<>>
        e4 == IF MissingTargets(panel)
              THEN <<ValidationError(PanelField(i, "targets"),
                        "query panels must have at least one target")>>
              ELSE <<>>
        e5 == TargetErrors(i, panel.Targets, 0)
    IN [f EXCEPT !.errors = f.errors \o e1 \o e2 \o e3 \o e4 \o e5,
                 !.panelIDs = f.panelIDs \cup {panel.ID},
                 !.i = i + 1]

\* the panel loop is over: the set of seen names and the next loop's start
VariablesStartStep(d, f) ==
    [f EXCEPT !.varNames = varNamesMake(f), !.i = 0, !.pc = "variables"]

\* (variant) names are compared without regard to case
FoldCase(name) == IF name = "Namespace" THEN "namespace" ELSE name
DuplicateVarNameAnyCase(varNames, variable) ==
    \E n \in varNames : FoldCase(n) = FoldCase(variable.Name)

\* if varNames[variable.Name]
DuplicateVarName(varNames, variable) == variable.Name \in varNames

\* one iteration of the loop over dashboard.Templating.List, at Go index f.i
VariableStep(d, f) ==
    LET i == f.i
        variable == d.Templating.List[i + 1]
        e1 == IF variable.Name = ""
              THEN <<ValidationError(VariableField(i, "name"),
                        "variable name is required")>>
              ELSE <<>>
        e2 == IF DuplicateVarName(f.varNames, variable)
              THEN <<ValidationError(VariableField(i, "name"),
                        "duplicate variable name: " \o variable.Name)>>
              ELSE <<>>
        e3 == IF variable.Type = ""
              THEN <<ValidationError(VariableField(i, "type"),
                        "variable type is required")>>
              ELSE <<>>
    IN [f EXCEPT !.errors = f.errors \o e1 \o e2 \o e3,
                 !.varNames = f.varNames \cup {variable.Name},
                 !.i = i + 1]

\* the error value nil
Nil == [isNil |-> TRUE, text |-> ""]

\* (variant) the entries are joined with a comma
CombinedErrorComma(errors) ==
    [isNil |-> FALSE,
     text |-> "validation failed: "
              \o Join([k \in 1..Len(errors) |-> Error(errors[k])], ", ")]

\* fmt.Errorf("validation failed: %s", strings.Join(messages, "; "))
CombinedError(errors) ==
    [isNil |-> FALSE,
     text |-> "validation failed: "
              \o Join([k \in 1..Len(errors) |-> Error(errors[k])], "; ")]

\* if len(errors) > 0 { ... return fmt.Errorf(...) }; return nil
ReturnStep(d, f) ==
    [f EXCEPT !.ret = IF Len(f.errors) > 0 THEN CombinedError(f.errors) ELSE Nil,
              !.pc = "done"]

\* the frame a first call starts in
EntryFrame ==
    [pc |-> "title", i |-> 0, errors |-> <<>>, panelIDs |-> {},
     varNames |-> {}, ret |-> Nil]

---------------------------------------------------------------------------
(* The actions of a ValidateDashboard call.                                *)

CheckTitle ==
    /\ call.pc = "title"
    /\ call' = TitleStep(dashboard, call)
    /\ UNCHANGED <<dashboard, returned>>
    /\ UNCHANGED subVars
    /\ UNCHANGED conVars

CheckSchemaVersion ==
    /\ call.pc = "schemaVersion"
    /\ call' = SchemaVersionStep(dashboard, call)
    /\ UNCHANGED <<dashboard, returned>>
    /\ UNCHANGED subVars
    /\ UNCHANGED conVars

CheckPanelCount ==
    /\ call.pc = "panelCount"
    /\ call' = PanelCountStep(dashboard, call)
    /\ UNCHANGED <<dashboard, returned>>
    /\ UNCHANGED subVars
    /\ UNCHANGED conVars

ValidatePanel ==
    /\ call.pc = "panels"
    /\ call.i < Len(dashboard.Panels)
    /\ call' = PanelStep(dashboard, call)
    /\ UNCHANGED <<dashboard, returned>>
    /\ UNCHANGED subVars
    /\ UNCHANGED conVars

StartVariables ==
    /\ call.pc = "panels"
    /\ call.i >= Len(dashboard.Panels)
    /\ call' = VariablesStartStep(dashboard, call)
    /\ UNCHANGED <<dashboard, returned>>
    /\ UNCHANGED subVars
    /\ UNCHANGED conVars

ValidateVariable ==
    /\ call.pc = "variables"
    /\ call.i < Len(dashboard.Templating.List)
    /\ call' = VariableStep(dashboard, call)
    /\ UNCHANGED <<dashboard, returned>>
    /\ UNCHANGED subVars
    /\ UNCHANGED conVars

Return ==
    /\ call.pc = "variables"
    /\ call.i >= Len(dashboard.Templating.List)
    /\ call' = ReturnStep(dashboard, call)
    /\ UNCHANGED <<dashboard, returned>>
    /\ UNCHANGED subVars
    /\ UNCHANGED conVars

\* the caller validates the same dashboard value once more
Revalidate ==
    /\ call.pc = "done"
    /\ Len(returned) + 1 < MaxCalls
    /\ returned' = Append(returned, [ret |-> call.ret, errors |-> call.errors])
    /\ call' = [call EXCEPT !.pc = "title"]
    /\ UNCHANGED dashboard
    /\ UNCHANGED subVars
    /\ UNCHANGED conVars

Validate ==
    \/ CheckTitle
    \/ CheckSchemaVersion
    \/ CheckPanelCount
    \/ ValidatePanel
    \/ StartVariables
    \/ ValidateVariable
    \/ Return

---------------------------------------------------------------------------
(* The dashboards checked.                                                 *)

Target(refID, expr) ==
    [RefID |-> refID, Expr |-> expr, IntervalFactor |-> 0, Step |-> 0]
Panel(id, type, w, h, targets) ==
    [ID |-> id, Type |-> type, GridPos |-> [W |-> w, H |-> h], Targets |-> targets]
TemplateVariable(name, type) == [Name |-> name, Type |-> type]
Dashboard(title, schemaVersion, panels, list) ==
    [Title |-> title, SchemaVersion |-> schemaVersion, Panels |-> panels,
     Templating |-> [List |-> list]]


Titles == {"", "CPU Usage"}
SchemaVersions == {0, 1}
PanelIDs == {1, 5}
RefIDs == {"", "A"}
VarTypes == {"", "query"}

NoSubstitution ==
    /\ content = <<>>
    /\ replacements = <<>>
    /\ result = <<>>
    /\ pending = {}
    /\ subpc = "idle"

NoInvocations ==
    /\ inputs = <<>>
    /\ frames = <<>>

\* the dashboards of Spec: every field the validator reads varies
GeneralTargetLists == {<<>>} \cup {<<Target(r, "up")>> : r \in RefIDs}
GeneralPanels ==
    {Panel(id, type, g[1], g[2], targets) :
        id \in PanelIDs, type \in {"", "timeseries", "text"},
        g \in {<<12, 8>>, <<0, 8>>}, targets \in GeneralTargetLists}
GeneralVars ==
    {TemplateVariable(name, type) : name \in {"", "namespace"}, type \in VarTypes}
GeneralDashboards ==
    {Dashboard(title, schemaVersion, panels, list) :
        title \in Titles, schemaVersion \in SchemaVersions,
        panels \in SeqsUpTo(GeneralPanels, MaxPanels),
        list \in SeqsUpTo(GeneralVars, MaxVars)}

Init ==
    /\ dashboard \in GeneralDashboards
    /\ call = EntryFrame
    /\ returned = <<>>
    /\ NoSubstitution
    /\ NoInvocations

Next == Validate \/ Revalidate

Spec == Init /\ [][Next]_vars

\* the dashboards of SpecLists: longer lists of panels and of variables,
\* with repeated ids and names, each element from a short list
ListPanels ==
    {Panel(id, k[1], k[2], k[3], k[4]) :
        id \in PanelIDs,
        k \in {<<"timeseries", 12, 8, <<Target("A", "up")>>>>,
               <<"", 0, 0, <<Target("", ""), Target("", "")>>>>}}
ListVars ==
    {TemplateVariable("namespace", "query"), TemplateVariable("Namespace", "query"),
     TemplateVariable("", "")}
ListDashboards ==
    {Dashboard(title, 1, panels, list) :
        title \in Titles,
        panels \in SeqsUpTo(ListPanels, MaxListPanels),
        list \in SeqsUpTo(ListVars, MaxListVars)}

InitLists ==
    /\ dashboard \in ListDashboards
    /\ call = EntryFrame
    /\ returned = <<>>
    /\ NoSubstitution
    /\ NoInvocations

NextOnce == Validate

SpecLists == InitLists /\ [][NextOnce]_vars

\* the dashboards of SpecTypes: one panel, of every type and shape
PanelTypes == queryPanels \cup {"", "text", "Table", "row", "Timeseries"}
GridSizes == {<<12, 8>>, <<0, 8>>, <<12, 0>>, <<-1, -1>>}
TypeTargets ==
    {[Target(r, h[1]) EXCEPT !.IntervalFactor = h[2], !.Step = h[3]] :
        r \in RefIDs, h \in {<<"", 0, 0>>, <<"up", 0, 0>>, <<"up", 2, 30>>}}
TypeDashboards ==
    {Dashboard("CPU Usage", 1, <<Panel(1, type, g[1], g[2], targets)>>, list) :
        type \in PanelTypes, g \in GridSizes,
        targets \in SeqsUpTo(TypeTargets, MaxTargets),
        list \in {<<>>, <<TemplateVariable("namespace", "query")>>}}

InitTypes ==
    /\ dashboard \in TypeDashboards
    /\ call = EntryFrame
    /\ returned = <<>>
    /\ NoSubstitution
    /\ NoInvocations

SpecTypes == InitTypes /\ [][NextOnce]_vars

---------------------------------------------------------------------------
(* Properties of ValidateDashboard.                                        *)

Done == call.pc = "done"

\* the number of entries of seq that satisfy P
Count(seq, P(_)) == Cardinality({k \in DOMAIN seq : P(seq[k])})

\* the panel types the documentation lists as query panels
ListedQueryTypes ==
    {"timeseries", "stat", "gauge", "bargauge", "table", "heatmap",
     "piechart", "graph", "singlestat"}

\* the rules a dashboard has to meet, stated on the dashboard alone
PanelMeetsRules(panel) ==
    /\ panel.Type # ""
    /\ panel.GridPos.W > 0
    /\ panel.GridPos.H > 0
    /\ panel.Type \in ListedQueryTypes => Len(panel.Targets) >= 1
    /\ \A j \in DOMAIN panel.Targets : panel.Targets[j].RefID # ""

MeetsAllRules(d) ==
    /\ d.Title # ""
    /\ d.SchemaVersion # 0
    /\ Len(d.Panels) >= 1
    /\ \A i \in DOMAIN d.Panels : PanelMeetsRules(d.Panels[i])
    /\ \A i, k \in DOMAIN d.Panels : i # k => d.Panels[i].ID # d.Panels[k].ID
    /\ \A i \in DOMAIN d.Templating.List :
          d.Templating.List[i].Name # "" /\ d.Templating.List[i].Type # ""
    /\ \A i, k \in DOMAIN d.Templating.List :
          i # k => d.Templating.List[i].Name # d.Templating.List[k].Name

Bit(b) == IF b THEN 1 ELSE 0

RECURSIVE Sum(_)
Sum(seq) == IF Len(seq) = 0 THEN 0 ELSE Head(seq) + Sum(Tail(seq))

\* the violated rule instances of one panel, of one variable, of a dashboard
PanelViolations(d, i) ==
    LET panel == d.Panels[i]
    IN Bit(\E k \in 1..(i - 1) : d.Panels[k].ID = panel.ID)
       + Bit(panel.Type = "")
       + Bit(panel.GridPos.W <= 0 \/ panel.GridPos.H <= 0)
       + Bit(panel.Type \in ListedQueryTypes /\ Len(panel.Targets) = 0)
       + Cardinality({j \in DOMAIN panel.Targets : panel.Targets[j].RefID = ""})

VariableViolations(d, i) ==
    LET variable == d.Templating.List[i]
    IN Bit(variable.Name = "")
       + Bit(\E k \in 1..(i - 1) : d.Templating.List[k].Name = variable.Name)
       + Bit(variable.Type = "")

Violations(d) ==
    Bit(d.Title = "") + Bit(d.SchemaVersion = 0) + Bit(Len(d.Panels) = 0)
    + Sum([i \in DOMAIN d.Panels |-> PanelViolations(d, i)])
    + Sum([i \in DOMAIN d.Templating.List |-> VariableViolations(d, i)])

\* C2: validation never stops at the first violation: when it returns, the
\* error list has one entry for each violated rule instance of the dashboard,
\* over all panels, targets and variables.
EveryViolationReported ==
    Done => Len(call.errors) = Violations(dashboard)

\* A dashboard with violations at its top level, in its panel and in its
\* variable has been validated.
ManyViolationsReported ==
    /\ Done
    /\ dashboard.Title = ""
    /\ dashboard.SchemaVersion = 0
    /\ Len(dashboard.Panels) = 1
    /\ Len(dashboard.Templating.List) = 1
    /\ Len(call.errors) >= 7

\* the indices (from 1) of the panels with id v, and of the variables named n
PanelsWithID(d, v) == {i \in DOMAIN d.Panels : d.Panels[i].ID = v}
VarsNamed(d, n) == {i \in DOMAIN d.Templating.List : d.Templating.List[i].Name = n}

Min(S) == CHOOSE m \in S : \A x \in S : m <= x

IsDuplicateIDError(e, v) == e.Message = "duplicate panel ID: " \o ToString(v)
IsDuplicateNameError(e, n) == e.Message = "duplicate variable name: " \o n

\* C3: of the N >= 1 panels with one id the first is not flagged and each
\* later one is flagged once, at its own index: N-1 duplicate id errors.
DuplicateIDsFlaggedAfterFirst ==
    Done =>
        \A v \in PanelIDs :
            LET same == PanelsWithID(dashboard, v)
                IsDup(e) == IsDuplicateIDError(e, v)
            IN same # {} =>
                /\ Count(call.errors, IsDup) = Cardinality(same) - 1
                /\ \A i \in same :
                      LET At(e) == IsDup(e)
                                   /\ e.Field = "panels[" \o ToString(i - 1) \o "].id"
                      IN Count(call.errors, At) = Bit(i # Min(same))

\* Three panels with the id 5 have been validated.
ThreePanelsShareID ==
    /\ Done
    /\ Cardinality(PanelsWithID(dashboard, 5)) = 3
    /\ Len(dashboard.Panels) = 3

IsMissingTargetsError(e) ==
    /\ e.Field = "panels[0].targets"
    /\ e.Message = "query panels must have at least one target"

\* C4: a panel yields a missing targets error exactly when its target list is
\* empty and its type is, letter for letter, one of the nine listed types.
MissingTargetsOnlyForListedTypes ==
    Done =>
        LET panel == dashboard.Panels[1]
        IN Count(call.errors, IsMissingTargetsError)
             = Bit(Len(panel.Targets) = 0 /\ panel.Type \in ListedQueryTypes)

\* A panel of type "Table" without targets has been validated.
CapitalTableValidated ==
    /\ Done
    /\ dashboard.Panels[1].Type = "Table"
    /\ dashboard.Panels[1].Targets = <<>>
    /\ Count(call.errors, IsMissingTargetsError) = 0

\* C5: of the N >= 1 variables with one name (compared letter for letter) the
\* first is not flagged and each later one is flagged once, at its own index.
DuplicateNamesFlaggedAfterFirst ==
    Done =>
        \A n \in {dashboard.Templating.List[i].Name : i \in DOMAIN dashboard.Templating.List} :
            LET same == VarsNamed(dashboard, n)
                IsDup(e) == IsDuplicateNameError(e, n)
            IN /\ Count(call.errors, IsDup) = Cardinality(same) - 1
               /\ \A i \in same :
                     LET At(e) == IsDup(e)
                                  /\ e.Field = "templating.list[" \o ToString(i - 1)
                                               \o "].name"
                     IN Count(call.errors, At) = Bit(i # Min(same))

\* The variables namespace, Namespace, namespace have been validated.
NamespaceTwiceValidated ==
    /\ Done
    /\ Len(dashboard.Templating.List) = 3
    /\ VarsNamed(dashboard, "namespace") = {1, 3}
    /\ VarsNamed(dashboard, "Namespace") = {2}

IsTitleError(e) == e.Field = "title"

\* C6: the error list has exactly one entry for the field title when the
\* title is empty, whatever else is wrong, and none when it is not.
OneTitleErrorIffNoTitle ==
    Done => Count(call.errors, IsTitleError) = Bit(dashboard.Title = "")

\* A dashboard without title and with other violations has been validated a
\* second time.
NoTitleAmongOthers ==
    /\ Done
    /\ Len(returned) = 1
    /\ dashboard.Title = ""
    /\ Len(call.errors) >= 4

\* where an entry of the error list belongs: its part of the dashboard
\* (0 the top level, 1 a panel, 2 a variable), the index of the panel or
\* variable, and the index of the target (-1 for the panel itself)
TopLevelFields == {"title", "schemaVersion", "panels"}
PanelPaths(i) ==
    {"panels[" \o ToString(i) \o "]." \o leaf : leaf \in {"id", "type", "gridPos", "targets"}}
TargetPath(i, j) ==
    "panels[" \o ToString(i) \o "].targets[" \o ToString(j) \o "].refId"
VariablePaths(i) ==
    {"templating.list[" \o ToString(i) \o "]." \o leaf : leaf \in {"name", "type"}}

MaxIndex == MaxPanels + MaxVars + MaxListPanels + MaxListVars + MaxTargets

AllPlaces ==
    {<<0, 0, -1>>}
    \cup {<<1, i, -1>> : i \in 0..MaxIndex}
    \cup {<<1, i, j>> : i \in 0..MaxIndex, j \in 0..MaxIndex}
    \cup {<<2, i, -1>> : i \in 0..MaxIndex}

FieldsOf(place) ==
    CASE place[1] = 0 -> TopLevelFields
      [] place[1] = 1 /\ place[3] = -1 -> PanelPaths(place[2])
      [] place[1] = 1 /\ place[3] # -1 -> {TargetPath(place[2], place[3])}
      [] OTHER -> VariablePaths(place[2])

\* the place each field path names
PlaceOfField ==
    [field \in UNION {FieldsOf(place) : place \in AllPlaces} |->
        CHOOSE place \in AllPlaces : field \in FieldsOf(place)]

\* the place exists in dashboard d
InDashboard(d, place) ==
    CASE place[1] = 0 -> TRUE
      [] place[1] = 1 /\ place[3] = -1 -> place[2] < Len(d.Panels)
      [] place[1] = 1 /\ place[3] # -1 ->
            /\ place[2] < Len(d.Panels)
            /\ place[3] < Len(d.Panels[place[2] + 1].Targets)
      [] OTHER -> place[2] < Len(d.Templating.List)

\* place p comes no later than place q
NotAfter(p, q) ==
    \/ p[1] < q[1]
    \/ p[1] = q[1] /\ p[2] < q[2]
    \/ p[1] = q[1] /\ p[2] = q[2] /\ (p[3] = -1 \/ q[3] = -1 \/ p[3] < q[3])

\* C7: the error list a call ends with is ordered: the top level errors, then the errors of
\* the panels by ascending panel index (those of a panel's targets by
\* ascending target index), then the errors of the variables by ascending
\* index; no error of a variable precedes an error of a panel.
ErrorsInDocumentOrder ==
    Done =>
        /\ \A k \in DOMAIN call.errors :
              /\ call.errors[k].Field \in DOMAIN PlaceOfField
              /\ InDashboard(dashboard, PlaceOfField[call.errors[k].Field])
        /\ \A a, b \in DOMAIN call.errors :
              a < b => NotAfter(PlaceOfField[call.errors[a].Field],
                                PlaceOfField[call.errors[b].Field])

\* A dashboard has been validated whose errors come from the top level, from
\* two targets of each of two panels and from two variables.
ErrorsOfEveryPart ==
    /\ Done
    /\ dashboard.Title = ""
    /\ \A i \in 0..1 : \A j \in 0..1 :
          \E k \in DOMAIN call.errors : call.errors[k].Field = TargetPath(i, j)
    /\ \A i \in 0..1 :
          \E k \in DOMAIN call.errors :
              call.errors[k].Field \in VariablePaths(i)

RECURSIVE EntriesText(_)
\* the entries as "<field>: <message>", separated by "; "
EntriesText(errors) ==
    LET n == Len(errors)
        last == errors[n].Field \o ": " \o errors[n].Message
    IN IF n = 1 THEN last
       ELSE EntriesText(SubSeq(errors, 1, n - 1)) \o "; " \o last

\* C8: the call ends with nil or with one combined error; the combined error
\* is returned exactly when the list of entries (each a field path and a
\* message) is not empty, and its text is "validation failed: " followed by
\* the entries as "<field>: <message>" joined with "; ".
CombinedErrorIffEntries ==
    Done =>
        /\ \A k \in DOMAIN call.errors :
              /\ DOMAIN call.errors[k] = {"Field", "Message"}
              /\ call.errors[k].Field # ""
              /\ call.errors[k].Message # ""
        /\ call.ret.isNil <=> call.errors = <<>>
        /\ call.ret.isNil => call.ret = Nil
        /\ ~call.ret.isNil =>
              call.ret.text = "validation failed: " \o EntriesText(call.errors)

\* A call has returned a combined error of three entries or more.
SeveralEntriesCombined ==
    /\ Done
    /\ ~call.ret.isNil
    /\ Len(call.errors) >= 3

\* C10: every later validation of the same dashboard value returns what the
\* first returned (the same nil or the same combined text, the same entries
\* in the same order), and no step of a call changes the dashboard.
RepeatedValidationAgrees ==
    [][/\ dashboard' = dashboard
       /\ call'.pc = "done" =>
             \A k \in DOMAIN returned' :
                 /\ returned'[k].ret = call'.ret
                 /\ returned'[k].errors = call'.errors]_vars

\* A dashboard with a panel and with errors has been validated again.
ValidatedAgain ==
    /\ Done
    /\ Len(returned) = MaxCalls - 1
    /\ Len(dashboard.Panels) >= 1
    /\ call.errors # <<>>
    /\ returned[1].errors = call.errors

---------------------------------------------------------------------------
(* ProcessTemplateVariables.  A string is a sequence of characters.        *)

StartsWith(s, prefix) ==
    Len(prefix) <= Len(s) /\ SubSeq(s, 1, Len(prefix)) = prefix

RECURSIVE ReplaceAll(_, _, _)
\* strings.ReplaceAll(s, old, new), old not empty: the occurrences of old
\* that do not overlap, from the left, each replaced by new
ReplaceAll(s, old, new) ==
    IF Len(s) < Len(old) THEN s
    ELSE IF StartsWith(s, old)
         THEN new \o ReplaceAll(SubSeq(s, Len(old) + 1, Len(s)), old, new)
         ELSE <<Head(s)>> \o ReplaceAll(Tail(s), old, new)

\* fmt.Sprintf("${%s}", variable) and fmt.Sprintf("$%s", variable)
BracedPlaceholder(variable) == <<"$", "{">> \o variable \o <<"}">>
BarePlaceholder(variable) == <<"$">> \o variable

\* the body of the range loop for one entry of the map
ReplaceEntry(text, variable, replacement) ==
    ReplaceAll(ReplaceAll(text, BracedPlaceholder(variable), replacement),
               BarePlaceholder(variable), replacement)

\* result := content
StartSubstitution ==
    /\ subpc = "start"
    /\ result' = content
    /\ pending' = DOMAIN replacements
    /\ subpc' = "range"
    /\ UNCHANGED <<content, replacements>>
    /\ UNCHANGED valVars
    /\ UNCHANGED conVars

\* one iteration of the range over the map, which visits the entries in an
\* order the language leaves open
ReplaceNext ==
    /\ subpc = "range"
    /\ \E variable \in pending :
          /\ result' = ReplaceEntry(result, variable, replacements[variable])
          /\ pending' = pending \ {variable}
    /\ UNCHANGED <<content, replacements, subpc>>
    /\ UNCHANGED valVars
    /\ UNCHANGED conVars

\* return result
ReturnResult ==
    /\ subpc = "range"
    /\ pending = {}
    /\ subpc' = "done"
    /\ UNCHANGED <<content, replacements, result, pending>>
    /\ UNCHANGED valVars
    /\ UNCHANGED conVars

\* the template texts and maps checked
Chars == {"$", "{", "}", "N", "S", "x"}
Names == {<<"N">>, <<"N", "S">>}
Values == {<<"x">>, <<"N">>, <<"x", "$", "N">>, <<"$", "N", "S">>}
Maps == UNION {[D -> Values] : D \in SUBSET Names}

\* "ns: ${NAMESPACE}, alt: $NAMESPACE" with NAMESPACE -> "prod"
NAMESPACE == <<"N", "A", "M", "E", "S", "P", "A", "C", "E">>
ExampleContent ==
    <<"n", "s", ":", " ">> \o <<"$", "{">> \o NAMESPACE \o <<"}">>
    \o <<",", " ", "a", "l", "t", ":", " ">> \o <<"$">> \o NAMESPACE
ExampleMap == [variable \in {NAMESPACE} |-> <<"p", "r", "o", "d">>]
ExampleResult ==
    <<"n", "s", ":", " ", "p", "r", "o", "d", ",", " ",
      "a", "l", "t", ":", " ", "p", "r", "o", "d">>

InitSubst ==
    /\ \/ content \in SeqsUpTo(Chars, MaxLen) /\ replacements \in Maps
       \/ content = ExampleContent /\ replacements = ExampleMap
    /\ result = <<>>
    /\ pending = {}
    /\ subpc = "start"
    /\ dashboard = Dashboard("", 0, <<>>, <<>>)
    /\ call = [EntryFrame EXCEPT !.pc = "idle"]
    /\ returned = <<>>
    /\ NoInvocations

NextSubst == StartSubstitution \/ ReplaceNext \/ ReturnResult

SpecSubst == InitSubst /\ [][NextSubst]_vars

---------------------------------------------------------------------------
(* Properties of ProcessTemplateVariables.                                 *)

Longest(S) == CHOOSE n \in S : \A k \in S : Len(k) <= Len(n)

RECURSIVE Expanded(_, _)
\* text with every placeholder ${NAME} and $NAME of an entry NAME -> value
\* of m replaced by value, and every other character kept: one pass over the
\* text, the values put in as they are
Expanded(text, m) ==
    IF text = <<>> THEN <<>>
    ELSE LET braced == {n \in DOMAIN m : StartsWith(text, <<"$", "{">> \o n \o <<"}">>)}
             bare == {n \in DOMAIN m : StartsWith(text, <<"$">> \o n)}
             rest(k) == SubSeq(text, k + 1, Len(text))
         IN IF braced # {}
            THEN m[Longest(braced)] \o Expanded(rest(Len(Longest(braced)) + 3), m)
            ELSE IF bare # {}
            THEN m[Longest(bare)] \o Expanded(rest(Len(Longest(bare)) + 1), m)
            ELSE <<Head(text)>> \o Expanded(Tail(text), m)

\* no name of the map begins with another name of the map
NoNameIsPrefix(m) ==
    \A n, k \in DOMAIN m : n # k => ~StartsWith(n, k)

\* C9: the text returned is the template text with every occurrence of
\* ${NAME} and of $NAME replaced by the literal value of NAME, for every entry
\* of the map, and with all other text unchanged (stated for the maps in
\* which no name begins with another, where the occurrences are unambiguous).
PlaceholdersReplacedByLiteralValues ==
    (subpc = "done" /\ NoNameIsPrefix(replacements))
        => result = Expanded(content, replacements)

\* the documented example: "ns: ${NAMESPACE}, alt: $NAMESPACE" with
\* NAMESPACE -> "prod" has come out as "ns: prod, alt: prod"
ExampleSubstituted ==
    /\ subpc = "done"
    /\ content = ExampleContent
    /\ replacements = ExampleMap
    /\ result = ExampleResult

---------------------------------------------------------------------------
(* Invocations of ValidateDashboard that run side by side, each on its own *)
(* dashboard and with its own frame.                                       *)

MaxConcurrentPanels == 2

\* the statement a frame stands at, executed
StepOf(d, f) ==
    CASE f.pc = "title" -> TitleStep(d, f)
      [] f.pc = "schemaVersion" -> SchemaVersionStep(d, f)
      [] f.pc = "panelCount" -> PanelCountStep(d, f)
      [] f.pc = "panels" /\ f.i < Len(d.Panels) -> PanelStep(d, f)
      [] f.pc = "panels" /\ f.i >= Len(d.Panels) -> VariablesStartStep(d, f)
      [] f.pc = "variables" /\ f.i < Len(d.Templating.List) -> VariableStep(d, f)
      [] f.pc = "variables" /\ f.i >= Len(d.Templating.List) -> ReturnStep(d, f)

RECURSIVE RunFrom(_, _)
\* the frame a call ends with when nothing else runs
RunFrom(d, f) == IF f.pc = "done" THEN f ELSE RunFrom(d, StepOf(d, f))

RunAlone(d) == RunFrom(d, EntryFrame)

Invocations == {1, 2}
Other(p) == 3 - p

\* invocation p is entered.  Its locals hold no value of their own yet: they
\* show whatever the other invocation's frame holds at this moment, until the
\* statements of the call assign them.
Enter(p) ==
    /\ frames[p].pc = "idle"
    /\ frames' = [frames EXCEPT ![p] = [frames[Other(p)] EXCEPT !.pc = "title"]]
    /\ UNCHANGED inputs
    /\ UNCHANGED valVars
    /\ UNCHANGED subVars

\* invocation p executes its next statement
InvocationStep(p) ==
    /\ frames[p].pc \notin {"idle", "done"}
    /\ frames' = [frames EXCEPT ![p] = StepOf(inputs[p], frames[p])]
    /\ UNCHANGED inputs
    /\ UNCHANGED valVars
    /\ UNCHANGED subVars

ConcurrentPanels ==
    {Panel(id, "timeseries", 12, 8, <<Target("A", "up")>>) : id \in PanelIDs}
ConcurrentVarLists ==
    {<<>>, <<TemplateVariable("namespace", "query")>>,
     <<TemplateVariable("namespace", "query"), TemplateVariable("namespace", "query")>>}
ConcurrentDashboards ==
    {Dashboard("CPU Usage", 1, panels, list) :
        panels \in SeqsUpTo(ConcurrentPanels, MaxConcurrentPanels),
        list \in ConcurrentVarLists}

InitConcurrent ==
    /\ inputs \in [Invocations -> ConcurrentDashboards]
    /\ frames = [p \in Invocations |-> [EntryFrame EXCEPT !.pc = "idle"]]
    /\ dashboard = Dashboard("", 0, <<>>, <<>>)
    /\ call = [EntryFrame EXCEPT !.pc = "idle"]
    /\ returned = <<>>
    /\ NoSubstitution

NextConcurrent == \E p \in Invocations : Enter(p) \/ InvocationStep(p)

SpecConcurrent == InitConcurrent /\ [][NextConcurrent]_vars

\* C11: the sets of seen ids and of seen names are created by each call, so
\* whatever the interleaving of two invocations on their own dashboards (one
\* after the other included), each returns what it returns when run alone,
\* and it reports an id or a name as a duplicate only if its own dashboard
\* carries it more than once.
InvocationsIndependent ==
    \A p \in Invocations :
        frames[p].pc = "done" =>
            /\ frames[p].errors = RunAlone(inputs[p]).errors
            /\ frames[p].ret = RunAlone(inputs[p]).ret
            /\ Len(frames[p].errors) = Violations(inputs[p])
            /\ \A k \in DOMAIN frames[p].errors :
                  /\ \A v \in PanelIDs :
                        IsDuplicateIDError(frames[p].errors[k], v)
                            => Cardinality(PanelsWithID(inputs[p], v)) >= 2
                  /\ IsDuplicateNameError(frames[p].errors[k], "namespace")
                        => Cardinality(VarsNamed(inputs[p], "namespace")) >= 2

\* Both invocations have returned; the dashboard of the second carries once
\* an id and a name that the dashboard of the first carries too.
SeenElsewhereNotDuplicate ==
    /\ frames[1].pc = "done"
    /\ frames[2].pc = "done"
    /\ Len(inputs[1].Panels) = 2
    /\ frames[1].errors # <<>>
    /\ Len(inputs[2].Panels) = 1
    /\ inputs[2].Panels[1].ID = inputs[1].Panels[1].ID
    /\ Len(inputs[2].Templating.List) = 1
    /\ Len(inputs[1].Templating.List) = 2
    /\ frames[2].ret = Nil

---------------------------------------------------------------------------
(* More properties of ValidateDashboard.                                   *)

IsRefIDErrorAt(e, i, j) ==
    /\ e.Field \in DOMAIN PlaceOfField
    /\ PlaceOfField[e.Field] = <<1, i, j>>
    /\ e.Message = "target refId is required"

\* C12: whatever the type of a panel, each of its targets with an empty refId
\* yields one error at panels[i].targets[j].refId and each other target none;
\* the expression, the interval factor and the step of a target yield no
\* error: the panel's errors are those of its type, its grid size, its
\* missing targets and its refIds, and nothing else.
OnlyRefIDOfTargetsChecked ==
    Done =>
        LET panel == dashboard.Panels[1]
            noRefID == {j \in DOMAIN panel.Targets : panel.Targets[j].RefID = ""}
        IN /\ \A j \in DOMAIN panel.Targets :
                 LET At(e) == IsRefIDErrorAt(e, 0, j - 1)
                 IN Count(call.errors, At) = Bit(j \in noRefID)
           /\ Len(call.errors)
                 = Bit(panel.Type = "")
                   + Bit(panel.GridPos.W <= 0 \/ panel.GridPos.H <= 0)
                   + Bit(panel.Type \in ListedQueryTypes /\ Len(panel.Targets) = 0)
                   + Cardinality(noRefID)

\* A panel of type "text" has been validated whose first target has neither
\* refId nor expression and whose second target has a refId and no expression.
TextPanelTargetsValidated ==
    /\ Done
    /\ dashboard.Panels[1].Type = "text"
    /\ Len(dashboard.Panels[1].Targets) = 2
    /\ dashboard.Panels[1].Targets[1].RefID = ""
    /\ dashboard.Panels[1].Targets[1].Expr = ""
    /\ dashboard.Panels[1].Targets[2].RefID = "A"
    /\ dashboard.Panels[1].Targets[2].Expr = ""
    /\ \E k \in DOMAIN call.errors : IsRefIDErrorAt(call.errors[k], 0, 0)

---------------------------------------------------------------------------
(* More properties of ProcessTemplateVariables.                            *)

\* the orders in which the entries with the names in S can be visited
Orders(S) ==
    {order \in [1..Cardinality(S) -> S] : {order[k] : k \in DOMAIN order} = S}

RECURSIVE AppliedInOrder(_, _, _)
\* text after the entries of m have been applied in the given order
AppliedInOrder(text, m, order) ==
    IF order = <<>> THEN text
    ELSE AppliedInOrder(ReplaceEntry(text, Head(order), m[Head(order)]), m, Tail(order))

\* C14: for a map of two entries or more the text returned does not depend on
\* the order in which the entries are applied: it is the text that every
\* order of the entries gives, also when one name begins with another and
\* when a value holds a placeholder of another entry.
ResultIndependentOfOrder ==
    (subpc = "done" /\ Cardinality(DOMAIN replacements) >= 2) =>
        \A order \in Orders(DOMAIN replacements) :
            result = AppliedInOrder(content, replacements, order)

====
